---- MODULE Spec2Model ----
(***************************************************************************)
(* A model of the feed-forward inference engine of package nnet:          *)
(* network construction (nnet.go), the forward pass (nnet.go), the batch  *)
(* dispatcher BatchPredict and the parallel-for ParallelFor (neuron.go).  *)
(*                                                                         *)
(* float64 values are modelled by integers: Combine is the same weighted  *)
(* sum, Linear is the identity, and Tanh (1.7159*tanh(2x/3), an odd,      *)
(* monotone function with Tanh(0)=0, Tanh(1)=1 that saturates) is the odd *)
(* monotone saturating integer function of the same shape.  Go's int and  *)
(* uint64 are modelled with IntBits bits instead of 64, with the same     *)
(* wrap-around conversions.                                                *)
(***************************************************************************)
EXTENDS Integers, Sequences, FiniteSets, TLC

(* ------------------------------ bounds -------------------------------- *)
\* width in bits of the model's int / uint64 (64 in the program)
IntBits == 4
\* constructor arguments range over -ArgSpan .. ArgSpan
ArgSpan == 2
\* most layers handed to NewTrainer
MaxLayers == 3
\* most Predict calls of one caller
MaxCalls == 2
\* most rows of a matrix handed to BatchPredict
MaxRows == 3
\* most workers (GOMAXPROCS) of a ParallelFor call
MaxProcs == 2
\* the count of invocations of one chunk is recorded up to CountCap
CountCap == 2
\* ParallelFor is called with n in 0..MaxN
MaxN == 5
\* and with a grain in 1..MaxGrain, or one of the two large grains
MaxGrain == 3

(* ------------------------ machine integers ---------------------------- *)
UintMod == 2 ^ IntBits
MaxInt == 2 ^ (IntBits - 1) - 1
MinInt == -(2 ^ (IntBits - 1))
\* uint64(x)
ToUint(x) == x % UintMod
\* int(u) for an unsigned u
ToInt(u) == IF u > MaxInt THEN u - UintMod ELSE u
\* the value of a signed expression after wrap-around
WrapInt(x) == ToInt(ToUint(x))

Min(a, b) == IF a < b THEN a ELSE b
Max(a, b) == IF a > b THEN a ELSE b

RECURSIVE SeqSum(_)
SeqSum(s) == IF s = <<>> THEN 0 ELSE Head(s) + SeqSum(Tail(s))

(* --------------------- computational unit (neuron.go) ------------------ *)
Activators == {"Linear", "Tanh"}

\* SumNeuron.NumParameters
NumParameters(nInputs) == nInputs + 1

\* Activator.Activate: Linear is the identity, Tanh saturates
Activate(activator, sum) ==
    IF activator = "Linear" THEN sum
    ELSE IF sum > 1 THEN 2 ELSE IF sum < -1 THEN -2 ELSE sum

\* SumNeuron.Combine indexes parameters[i] for every input and then the last
\* parameter: it panics when there are more inputs than parameters, or none
CombinePanics(parameters, inputs) ==
    Len(inputs) > Len(parameters) \/ Len(parameters) = 0

\* SumNeuron.Combine: weighted sum of the inputs plus the bias (last parameter)
Combine(parameters, inputs) ==
    SeqSum([i \in 1..Len(inputs) |-> parameters[i] * inputs[i]])
        + parameters[Len(parameters)]

(* ---------------------- construction (nnet.go) ------------------------- *)
NeuronOverhead == 70
LayerOverhead == 200
TargetBudget == 100000
\* c := 0.7 is CostNum / CostDen
CostNum == 7
CostDen == 10

NoNet ==
    [inputDim |-> 0, outputDim |-> 0, totalNumParameters |-> 0, grainSize |-> 0,
     neurons |-> <<>>, parameters |-> <<>>]

\* the result of a constructor: a net, an error value, or a panic
OkResult(net) == [res |-> "ok", msg |-> "", net |-> net]
ErrResult(msg) == [res |-> "error", msg |-> msg, net |-> NoNet]
PanicResult(msg) == [res |-> "panic", msg |-> msg, net |-> NoNet]

\* Net.setGrainSize: ceil(100000 / (0.7 * nOps)), floored at 1
setGrainSize(net) ==
    LET nNeurons == SeqSum([i \in 1..Len(net.neurons) |-> Len(net.neurons[i])])
        nOps == net.totalNumParameters + nNeurons * NeuronOverhead
                    + LayerOverhead * Len(net.neurons)
        den == CostNum * nOps
        num == TargetBudget * CostDen
        ceil == (num + den - 1) \div den
        grainSize == IF ceil < 1 THEN 1 ELSE ceil
    IN  [net EXCEPT !.grainSize = grainSize]

\* Net.HackGrainSize: n.grainSize = g
HackGrainSize(net, g) == [net EXCEPT !.grainSize = g]

\* the number of inputs of layer i: inputDim for the first, else the width
\* of the layer before
LayerInputs(inputDim, neurons, i) ==
    IF i = 1 THEN inputDim ELSE Len(neurons[i - 1])

\* NewTrainer; neurons[i][j] is the activator of the SumNeuron j of layer i
NewTrainer(inputDim, outputDim, neurons) ==
    IF Len(neurons) = 0 THEN ErrResult("net: no neurons given")
    ELSE IF \E i \in 1..Len(neurons) : Len(neurons[i]) = 0
    THEN ErrResult("net: layer with no neurons")
    ELSE IF NumParameters(inputDim) < 0
    THEN PanicResult("makeslice: len out of range")
    ELSE
        LET parameters ==
                [i \in 1..Len(neurons) |->
                    [j \in 1..Len(neurons[i]) |->
                        [k \in 1..NumParameters(LayerInputs(inputDim, neurons, i))
                            |-> 0]]]
            totalNumParameters ==
                SeqSum([i \in 1..Len(neurons) |->
                    Len(neurons[i])
                        * NumParameters(LayerInputs(inputDim, neurons, i))])
        IN  OkResult(setGrainSize(
                [inputDim |-> inputDim, outputDim |-> outputDim,
                 totalNumParameters |-> totalNumParameters, grainSize |-> 0,
                 neurons |-> neurons, parameters |-> parameters]))

\* NewSimpleTrainer: nHiddenLayers layers of nNeuronsPerLayer Tanh neurons and
\* a final layer of outputDim neurons with the given activator
NewSimpleTrainer(inputDim, outputDim, nHiddenLayers, nNeuronsPerLayer, finalLayerActivator) ==
    IF inputDim <= 0 THEN ErrResult("non-positive input dimension")
    ELSE IF outputDim <= 0 THEN ErrResult("non-positive output dimension")
    ELSE IF inputDim <= 0
    THEN ErrResult("non-positive number of neurons per layer")
    ELSE IF nHiddenLayers + 1 < 0
    THEN PanicResult("makeslice: len out of range")
    ELSE IF nHiddenLayers > 0 /\ nNeuronsPerLayer < 0
    THEN PanicResult("makeslice: len out of range")
    ELSE IF nHiddenLayers < 0
    THEN PanicResult("index out of range")
    ELSE NewTrainer(inputDim, outputDim,
            [i \in 1..(nHiddenLayers + 1) |->
                IF i <= nHiddenLayers
                THEN [j \in 1..nNeuronsPerLayer |-> "Tanh"]
                ELSE [j \in 1..outputDim |-> finalLayerActivator]])

(* ----------------------- forward pass (nnet.go) ------------------------ *)
\* Memory is a heap of buffers (arrays); a slice names a buffer and a length
\* (every slice of the program starts at element 0 of its array).
Slice(buf, len) == [buf |-> buf, len |-> len]
NilSlice == Slice(<<"nil", 0>>, 0)
RECURSIVE Zeros(_)
Zeros(k) == IF k <= 0 THEN <<>> ELSE Append(Zeros(k - 1), 0)

\* the elements of a slice
Elems(h, s) == SubSeq(h[s.buf], 1, s.len)

\* s[:k]: allowed up to the capacity of the array
ReslicePanics(h, s, k) == k < 0 \/ k > Len(h[s.buf])
Reslice(s, k) == Slice(s.buf, k)

\* a processLayer that adds to what output[i] held
LayerValueAccumulate(old, new) == old + new

\* output[i] = neuron.Activate(combination)
LayerValue(old, new) == new

\* processLayer from neuron i on: output[i] = Activate(Combine(parameters[i],
\* input)); the result is the heap and whether an index was out of range
RECURSIVE processLayerFrom(_, _, _, _, _, _)
processLayerFrom(h, input, neurons, parameters, output, i) ==
    IF i > Len(neurons) THEN [panic |-> FALSE, h |-> h]
    ELSE IF \/ i > Len(parameters)
            \/ CombinePanics(parameters[i], Elems(h, input))
            \/ i > output.len
    THEN [panic |-> TRUE, h |-> h]
    ELSE processLayerFrom(
            [h EXCEPT ![output.buf][i] =
                LayerValue(@, Activate(neurons[i],
                                Combine(parameters[i], Elems(h, input))))],
            input, neurons, parameters, output, i + 1)

processLayer(h, input, neurons, parameters, output) ==
    processLayerFrom(h, input, neurons, parameters, output, 1)

\* a first layer computed in place, into the input's array, when it fits
FirstLayerOutputInPlace(input, tmpOutput, width) ==
    IF width <= input.len THEN Reslice(input, width)
    ELSE Reslice(tmpOutput, width)

\* tmpOutput = tmpOutput[:len(neurons[0])]
FirstLayerOutput(input, tmpOutput, width) == Reslice(tmpOutput, width)

\* The state of predict between two layers: the heap, the two local slices
\* prevTmpOutput and tmpOutput, and whether it panicked.
PassState(h, prevTmpOutput, tmpOutput) ==
    [panic |-> FALSE, h |-> h, prevTmpOutput |-> prevTmpOutput,
     tmpOutput |-> tmpOutput]

\* layer i (1-based) of predict
\* a swap that leaves the two slices where they were
TmpSwapForgotten(prevTmpOutput, tmpOutput) == <<prevTmpOutput, tmpOutput>>

\* prevTmpOutput, tmpOutput = tmpOutput, prevTmpOutput
TmpSwap(prevTmpOutput, tmpOutput) == <<tmpOutput, prevTmpOutput>>

layerStep(st, input, neurons, parameters, output, i) ==
    LET nLayers == Len(neurons)
        width == Len(neurons[i])
        done(r, prev, tmp) ==
            [panic |-> r.panic, h |-> r.h, prevTmpOutput |-> prev,
             tmpOutput |-> tmp]
    IN  IF nLayers = 1
        THEN done(processLayer(st.h, input, neurons[1], parameters[1], output),
                  st.prevTmpOutput, st.tmpOutput)
        ELSE IF i = nLayers
        THEN done(processLayer(st.h, st.tmpOutput, neurons[i], parameters[i],
                               output),
                  st.prevTmpOutput, st.tmpOutput)
        ELSE IF i = 1
        THEN IF ReslicePanics(st.h, st.tmpOutput, width)
             THEN [st EXCEPT !.panic = TRUE]
             ELSE LET tmp == FirstLayerOutput(input, st.tmpOutput, width)
                  IN  done(processLayer(st.h, input, neurons[1], parameters[1],
                                        tmp),
                           st.prevTmpOutput, tmp)
        ELSE \* a middle layer: swap the two slices, reslice the new output
             LET swapped == TmpSwap(st.prevTmpOutput, st.tmpOutput)
             IN  IF ReslicePanics(st.h, swapped[2], width)
                 THEN [st EXCEPT !.panic = TRUE]
                 ELSE LET prev == swapped[1]
                          tmp == Reslice(swapped[2], width)
                      IN  done(processLayer(st.h, prev, neurons[i],
                                            parameters[i], tmp),
                               prev, tmp)

\* the input and the output handed to processLayer for layer i, as they stand
\* once that layer is done
LayerRead(st, input, nLayers, i) ==
    IF i = 1 THEN input
    ELSE IF i = nLayers THEN st.tmpOutput
    ELSE st.prevTmpOutput
LayerWrite(st, output, nLayers, i) ==
    IF i = nLayers THEN output ELSE st.tmpOutput

\* predict: the layers in order, stopping at a panic
RECURSIVE predictFrom(_, _, _, _, _, _)
predictFrom(st, input, neurons, parameters, output, i) ==
    IF st.panic \/ i > Len(neurons) THEN st
    ELSE predictFrom(layerStep(st, input, neurons, parameters, output, i),
                     input, neurons, parameters, output, i + 1)

predict(h, input, neurons, parameters, prevTmpOutput, tmpOutput, output) ==
    predictFrom(PassState(h, prevTmpOutput, tmpOutput), input, neurons,
                parameters, output, 1)

\* scratch buffers sized by the last layer only
newPredictMemoryLastLayer(neurons) == Len(neurons[Len(neurons)])

\* newPredictMemory: the length of the two scratch buffers
newPredictMemory(neurons) ==
    LET widths == {Len(neurons[i]) : i \in 1..Len(neurons)}
    IN  CHOOSE m \in widths : \A w \in widths : w <= m

\* Trainer.RandomizeParameters: every parameter gets a random value; the
\* model draws the values of one call from the pattern numbered seed
RandomizeParameters(net, seed) ==
    [net EXCEPT !.parameters =
        [i \in 1..Len(net.parameters) |->
            [j \in 1..Len(net.parameters[i]) |->
                [k \in 1..Len(net.parameters[i][j]) |->
                    ((seed + i + 2 * j + 3 * k) % 3) - 1]]]]

\* Net.Predict's validation: the error it returns, or "" for none
PredictErrorNoOutputCheck(net, inputLen, outputIsNil, outputLen) ==
    IF inputLen # net.inputDim THEN "input dimension mismatch" ELSE ""

PredictError(net, inputLen, outputIsNil, outputLen) ==
    IF inputLen # net.inputDim THEN "input dimension mismatch"
    ELSE IF ~outputIsNil /\ outputLen # net.outputDim
    THEN "output dimension mismatch"
    ELSE ""

(* ------------------------------ state --------------------------------- *)
VARIABLES
    ctor,       \* the last constructor call: its arguments and what it returned
    n,          \* ParallelFor: the size of the index range
    grain,      \* ParallelFor: the grain size
    nprocs,     \* ParallelFor: P, the number of workers
    idx,        \* ParallelFor: the shared atomic counter (unsigned)
    wg,         \* ParallelFor: the WaitGroup counter
    pc,         \* ParallelFor: where each worker is
    start,      \* ParallelFor: each worker's local start
    end,        \* ParallelFor: each worker's local end
    calls,      \* the invocations f(start, end) made, with their counts
    exitClaims, \* per worker, the claims it made whose start was >= n
    returned,   \* ParallelFor has returned
    net,        \* the network predictions are made with
    mem,        \* the heap: the contents of every buffer
    th,         \* the callers of Predict: where each is, what it holds, and
                \* the processLayer calls of its current prediction
    inputSnap,  \* what the caller last stored in the input buffer
    results,    \* <<input, output, how>> of every prediction made
    aborted,    \* a panic has ended the program
    batch,      \* the BatchPredict call: its arguments, where it is, its result
    loopi,      \* BatchPredict: each worker's row index i inside f
    pred,       \* BatchPredict: the predictor p and the row buffers of each
                \* worker's running f
    hist        \* BatchPredict: which invocation of f made each buffer, which
                \* wrote each row of the sink, what each last wrote

ctorVars == <<ctor>>
pfVars == <<n, grain, nprocs, idx, wg, pc, start, end, calls, exitClaims,
            returned>>
predVars == <<net, mem, th, inputSnap, results, aborted>>
batchVars == <<batch, loopi, pred, hist>>
vars == <<ctor, n, grain, nprocs, idx, wg, pc, start, end, calls, exitClaims,
          returned, net, mem, th, inputSnap, results, aborted, batch, loopi,
          pred, hist>>

(* ------------------- specification of the constructors ----------------- *)
ArgRange == (-ArgSpan)..ArgSpan

\* a layer handed to NewTrainer: 0..ArgSpan neurons with one activator
Layers ==
    {[j \in 1..w |-> a] : w \in 0..ArgSpan, a \in Activators}

RECURSIVE SeqsUpTo(_, _)
SeqsUpTo(S, k) ==
    IF k = 0 THEN {<<>>}
    ELSE LET shorter == SeqsUpTo(S, k - 1)
         IN  shorter \cup {Append(s, x) : s \in shorter, x \in S}

NoCall ==
    [op |-> "none", inputDim |-> 0, outputDim |-> 0, nHiddenLayers |-> 0,
     nNeuronsPerLayer |-> 0, neurons |-> <<>>, out |-> ErrResult("")]

Workers == 1..MaxProcs

\* a wg.Add that counts one worker too few
WgAddShort(P) == P - 1

\* wg.Add(P)
WgAdd(P) == P

NoCalls == [c \in {} |-> 0]

\* the state of a ParallelFor(n0, grain0, f) call with P0 workers once
\* wg.Add(P) is done and the goroutines are spawned
PFStarted(n0, grain0, P0) ==
    /\ n = n0
    /\ grain = grain0
    /\ nprocs = P0
    /\ idx = 0
    /\ wg = WgAdd(P0)
    /\ pc = [w \in Workers |-> IF w <= P0 THEN "claim" ELSE "none"]
    /\ start = [w \in Workers |-> 0]
    /\ end = [w \in Workers |-> 0]
    /\ calls = NoCalls
    /\ exitClaims = [w \in Workers |-> 0]
    /\ returned = FALSE

\* no ParallelFor call
PFIdle ==
    /\ n = 0 /\ grain = 1 /\ nprocs = 0 /\ idx = 0 /\ wg = 0
    /\ pc = [w \in Workers |-> "none"]
    /\ start = [w \in Workers |-> 0]
    /\ end = [w \in Workers |-> 0]
    /\ calls = NoCalls
    /\ exitClaims = [w \in Workers |-> 0]
    /\ returned = FALSE

\* no prediction
PredIdle ==
    /\ net = NoNet
    /\ mem = [b \in {} |-> <<>>]
    /\ th = [t \in {} |-> 0]
    /\ inputSnap = <<>>
    /\ results = {}
    /\ aborted = FALSE

\* a matrix argument: whether it is nil, whether it is a RowViewer (a
\* SosMatrix) and its dimensions; its rows are buffers of the heap
Matrix(isNil, viewer, nrows, cols) ==
    [isNil |-> isNil, viewer |-> viewer, nrows |-> nrows, cols |-> cols]
NilMatrix == Matrix(TRUE, FALSE, 0, 0)

NoBatch ==
    [pc |-> "none", err |-> "", inputs |-> NilMatrix, outArg |-> NilMatrix,
     outputs |-> NilMatrix, strategy |-> 0, retOut |-> "none",
     nPredictors |-> 0, outBefore |-> <<>>]

\* the locals of f before it has made them
NoPredictor ==
    [prevTmpOutput |-> NilSlice, tmpOutput |-> NilSlice, input |-> NilSlice,
     output |-> NilSlice]

\* nothing made or written yet
NoHist ==
    [exec |-> [w \in Workers |-> 0], bufOwner |-> [b \in {} |-> 0],
     rowWriters |-> [r \in 1..MaxRows |-> {}], nRowBufs |-> 0,
     touched |-> [w \in Workers |-> {}]]

\* no BatchPredict call
BatchIdle ==
    /\ batch = NoBatch
    /\ loopi = [w \in Workers |-> 0]
    /\ pred = [w \in Workers |-> NoPredictor]
    /\ hist = NoHist

InitNew == ctor = NoCall /\ PFIdle /\ PredIdle /\ BatchIdle

CallNewSimpleTrainer ==
    /\ ctor.op = "none"
    /\ \E inputDim \in ArgRange, outputDim \in ArgRange,
          nHiddenLayers \in ArgRange, nNeuronsPerLayer \in ArgRange,
          finalLayerActivator \in Activators :
            ctor' = [op |-> "NewSimpleTrainer", inputDim |-> inputDim,
                     outputDim |-> outputDim, nHiddenLayers |-> nHiddenLayers,
                     nNeuronsPerLayer |-> nNeuronsPerLayer, neurons |-> <<>>,
                     out |-> NewSimpleTrainer(inputDim, outputDim, nHiddenLayers,
                                nNeuronsPerLayer, finalLayerActivator)]
    /\ UNCHANGED <<pfVars, predVars, batchVars>>

CallNewTrainer ==
    /\ ctor.op = "none"
    /\ \E inputDim \in ArgRange, outputDim \in ArgRange,
          neurons \in SeqsUpTo(Layers, MaxLayers) :
            ctor' = [op |-> "NewTrainer", inputDim |-> inputDim,
                     outputDim |-> outputDim, nHiddenLayers |-> 0,
                     nNeuronsPerLayer |-> 0, neurons |-> neurons,
                     out |-> NewTrainer(inputDim, outputDim, neurons)]
    /\ UNCHANGED <<pfVars, predVars, batchVars>>

\* net.HackGrainSize(g) on the network a constructor returned
CallHackGrainSize ==
    /\ ctor.op # "none"
    /\ ctor.out.res = "ok"
    /\ \E g \in ArgRange :
            ctor' = [ctor EXCEPT !.out.net = HackGrainSize(@, g)]
    /\ UNCHANGED <<pfVars, predVars, batchVars>>

NextNew == CallNewSimpleTrainer \/ CallNewTrainer \/ CallHackGrainSize

SpecNew == InitNew /\ [][NextNew]_vars

(* --------------------- ParallelFor (neuron.go) ------------------------- *)
\* atomic.AddUint64(&idx, uint64(grain)): the new value of the counter
AtomicAdd(counter, g) == (counter + ToUint(g)) % UintMod

\* a claim that forgets to step back to the start of its chunk
ClaimStartNoSub(newIdx, g) == ToInt(newIdx)

\* start := int(atomic.AddUint64(&idx, uint64(grain))) - grain
ClaimStart(newIdx, g) == WrapInt(ToInt(newIdx) - g)

\* an end one past the chunk's
ChunkEndInclusive(s, g, n0) ==
    LET e == WrapInt(s + g + 1) IN IF e > n0 THEN n0 ELSE e

\* end := start + grain; if end > n { end = n }
ChunkEnd(s, g, n0) ==
    LET e == WrapInt(s + g) IN IF e > n0 THEN n0 ELSE e

\* one more invocation of f(s, e), counted up to CountCap
Record(cs, s, e) ==
    IF <<s, e>> \in DOMAIN cs
    THEN [cs EXCEPT ![<<s, e>>] = Min(@ + 1, CountCap)]
    ELSE [c \in DOMAIN cs \cup {<<s, e>>} |->
            IF c = <<s, e>> THEN 1 ELSE cs[c]]

\* one iteration of a worker's loop up to the entry of f: the atomic claim,
\* the test start >= n (break) and the clamp of end
Claim(w) ==
    /\ ~aborted
    /\ pc[w] = "claim"
    /\ LET newIdx == AtomicAdd(idx, grain)
           s == ClaimStart(newIdx, grain)
           e == ChunkEnd(s, grain, n)
       IN  /\ idx' = newIdx
           /\ start' = [start EXCEPT ![w] = s]
           /\ IF s >= n
              THEN /\ pc' = [pc EXCEPT ![w] = "exit"]
                   /\ exitClaims' = [exitClaims EXCEPT ![w] = @ + 1]
                   /\ UNCHANGED <<end, calls>>
              ELSE /\ pc' = [pc EXCEPT ![w] = "work"]
                   /\ end' = [end EXCEPT ![w] = e]
                   /\ calls' = Record(calls, s, e)
                   /\ UNCHANGED exitClaims
    /\ UNCHANGED <<n, grain, nprocs, wg, returned>>
    /\ UNCHANGED <<ctorVars, predVars, batchVars>>

\* f(start, end) returns (f is any terminating function here)
WorkReturns(w) ==
    /\ ~aborted
    /\ batch.pc = "none"
    /\ pc[w] = "work"
    /\ pc' = [pc EXCEPT ![w] = "claim"]
    /\ UNCHANGED <<n, grain, nprocs, idx, wg, start, end, calls, exitClaims,
                   returned>>
    /\ UNCHANGED <<ctorVars, predVars, batchVars>>

\* wg.Done() after the loop
WgDone(w) ==
    /\ ~aborted
    /\ pc[w] = "exit"
    /\ wg' = wg - 1
    /\ pc' = [pc EXCEPT ![w] = "done"]
    /\ UNCHANGED <<n, grain, nprocs, idx, start, end, calls, exitClaims,
                   returned>>
    /\ UNCHANGED <<ctorVars, predVars, batchVars>>

\* wg.Wait() is released when the counter is zero, and ParallelFor returns
WgWait ==
    /\ ~aborted
    /\ ~returned
    /\ nprocs > 0
    /\ batch.pc \in {"none", "pf"}
    /\ wg = 0
    /\ returned' = TRUE
    /\ UNCHANGED <<n, grain, nprocs, idx, wg, pc, start, end, calls,
                   exitClaims>>
    /\ UNCHANGED <<ctorVars, predVars, batchVars>>

(* ------------------- specification of ParallelFor ---------------------- *)
\* the grain sizes tried: the small ones, a quarter of the unsigned range,
\* and the largest int
Grains == (1..MaxGrain) \cup {2 ^ (IntBits - 2), MaxInt}

InitPF ==
    /\ ctor = NoCall
    /\ PredIdle
    /\ BatchIdle
    /\ \E n0 \in 0..MaxN, grain0 \in Grains, P0 \in 1..MaxProcs :
            PFStarted(n0, grain0, P0)

NextPF ==
    \/ \E w \in Workers : Claim(w)
    \/ \E w \in Workers : WorkReturns(w)
    \/ \E w \in Workers : WgDone(w)
    \/ WgWait

SpecPF == InitPF /\ [][NextPF]_vars

\* goroutines are scheduled fairly: a worker that can take a step takes it
FairSpecPF ==
    /\ SpecPF
    /\ \A w \in Workers : WF_vars(Claim(w) \/ WorkReturns(w) \/ WgDone(w))
    /\ WF_vars(WgWait)

(* ----------------- Net.Predict and predictor.Predict ------------------- *)
Layer(activator, width) == [j \in 1..width |-> activator]

\* the parameter patterns RandomizeParameters draws from
Seeds == {1, 2}

\* the networks predictions are made with: one, two, three (of unequal
\* widths) and four layers, with randomized parameters
TestNets ==
    {RandomizeParameters(r.net, seed) :
        r \in {NewTrainer(2, 1, <<Layer("Linear", 1)>>),
               NewSimpleTrainer(1, 2, 1, 2, "Linear"),
               NewTrainer(2, 2, <<Layer("Tanh", 2), Layer("Tanh", 1),
                                  Layer("Linear", 2)>>),
               NewSimpleTrainer(1, 1, 3, 2, "Tanh")},
        seed \in Seeds}

\* caller 1 predicts with Net.Predict, caller 2 with a predictor of its own
Threads == {1, 2}
NetCallers == {1}
InputBuf == <<"input", 0>>
ThreadBufs == {"out", "fresh", "tmp", "prev", "ptmp", "pprev"}
PredBufs == {InputBuf} \cup (ThreadBufs \X Threads)

\* input vectors: two of the right length, one that is too short and one
\* that is too long
Inputs(nt) ==
    {[i \in 1..nt.inputDim |-> 1], [i \in 1..nt.inputDim |-> -i],
     Zeros(nt.inputDim - 1), Zeros(nt.inputDim + 1)}

\* what the caller passes as output: nil, or a buffer holding prior values
\* that is of the right length, too short or too long
CallerOutputs(nt) ==
    {[isNil |-> TRUE, val |-> <<>>]}
        \cup {[isNil |-> FALSE, val |-> [i \in 1..k |-> v]] :
                k \in {nt.outputDim - 1, nt.outputDim, nt.outputDim + 1},
                v \in {3}}

IdleThread ==
    [pc |-> "idle", kind |-> "", layer |-> 0, hasP |-> FALSE, ncalls |-> 0,
     inLen |-> 0, outGiven |-> FALSE, outBefore |-> <<>>, err |-> "",
     ret |-> NilSlice,
     layersRun |-> 0, prevTmpOutput |-> NilSlice, tmpOutput |-> NilSlice,
     output |-> NilSlice,
     p |-> [prevTmpOutput |-> NilSlice, tmpOutput |-> NilSlice],
     log |-> <<>>]

InitPredict ==
    /\ ctor = NoCall
    /\ PFIdle
    /\ BatchIdle
    /\ net \in TestNets
    /\ \E v \in Inputs(net) :
        /\ mem = [b \in PredBufs |-> IF b = InputBuf THEN v ELSE <<>>]
        /\ inputSnap = v
    /\ th = [t \in Threads |-> IdleThread]
    /\ results = {}
    /\ aborted = FALSE

\* the caller stores another vector in its input buffer between predictions
SetInput ==
    /\ ~aborted
    /\ \A t \in Threads : th[t].pc # "run"
    /\ \E v \in Inputs(net) :
        /\ v # mem[InputBuf]
        /\ mem' = [mem EXCEPT ![InputBuf] = v]
        /\ inputSnap' = v
    /\ UNCHANGED <<net, th, results, aborted>>
    /\ UNCHANGED <<ctorVars, pfVars, batchVars>>

\* Net.Predict(input, output) up to the call of predict: the validation, the
\* allocation of a nil output and newPredictMemory
NetPredictCall(t) ==
    /\ ~aborted
    /\ t \in NetCallers
    /\ th[t].pc # "run"
    /\ th[t].ncalls < MaxCalls
    /\ \E o \in CallerOutputs(net) :
        LET e == PredictError(net, Len(mem[InputBuf]), o.isNil, Len(o.val))
            max == newPredictMemory(net.neurons)
            outBuf == IF o.isNil THEN <<"fresh", t>> ELSE <<"out", t>>
            called == [th[t] EXCEPT !.kind = "Net", !.ncalls = @ + 1,
                          !.inLen = Len(mem[InputBuf]),
                          !.outGiven = ~o.isNil, !.outBefore = o.val,
                          !.err = e, !.ret = NilSlice, !.layersRun = 0,
                          !.log = <<>>]
        IN  IF e # ""
            THEN /\ th' = [th EXCEPT ![t] = [called EXCEPT !.pc = "ret"]]
                 /\ mem' = [mem EXCEPT ![<<"out", t>>] = o.val,
                                       ![<<"fresh", t>>] = <<>>]
            ELSE /\ th' = [th EXCEPT ![t] =
                        [called EXCEPT !.pc = "run", !.layer = 1,
                            !.output = Slice(outBuf, net.outputDim),
                            !.prevTmpOutput = Slice(<<"prev", t>>, max),
                            !.tmpOutput = Slice(<<"tmp", t>>, max)]]
                 /\ mem' = [mem EXCEPT
                        ![<<"out", t>>] = o.val,
                        ![<<"fresh", t>>] =
                            IF o.isNil THEN Zeros(net.outputDim) ELSE <<>>,
                        ![<<"prev", t>>] = Zeros(max),
                        ![<<"tmp", t>>] = Zeros(max)]
    /\ UNCHANGED <<net, inputSnap, results, aborted>>
    /\ UNCHANGED <<ctorVars, pfVars, batchVars>>

\* batchPredictor.NewPredictor: a predictor with its own scratch buffers
NewPredictor(t) ==
    /\ ~aborted
    /\ t \notin NetCallers
    /\ th[t].pc # "run"
    /\ ~th[t].hasP
    /\ LET max == newPredictMemory(net.neurons)
       IN  /\ th' = [th EXCEPT ![t].hasP = TRUE,
                        ![t].p = [prevTmpOutput |-> Slice(<<"pprev", t>>, max),
                                  tmpOutput |-> Slice(<<"ptmp", t>>, max)]]
           /\ mem' = [mem EXCEPT ![<<"pprev", t>>] = Zeros(max),
                                 ![<<"ptmp", t>>] = Zeros(max)]
    /\ UNCHANGED <<net, inputSnap, results, aborted>>
    /\ UNCHANGED <<ctorVars, pfVars, batchVars>>

\* predictor.Predict(input, output) up to the call of predict: no validation;
\* its callers pass vectors of the network's dimensions
PredictorPredictCall(t) ==
    /\ ~aborted
    /\ th[t].pc # "run"
    /\ th[t].hasP
    /\ th[t].ncalls < MaxCalls
    /\ Len(mem[InputBuf]) = net.inputDim
    /\ \E o \in CallerOutputs(net) :
        /\ ~o.isNil
        /\ Len(o.val) = net.outputDim
        /\ th' = [th EXCEPT ![t] =
                [@ EXCEPT !.pc = "run", !.kind = "predictor", !.layer = 1,
                    !.ncalls = @ + 1, !.inLen = Len(mem[InputBuf]),
                    !.outGiven = TRUE, !.outBefore = o.val,
                    !.err = "", !.ret = NilSlice, !.layersRun = 0,
                    !.log = <<>>,
                    !.output = Slice(<<"out", t>>, net.outputDim),
                    !.prevTmpOutput = th[t].p.prevTmpOutput,
                    !.tmpOutput = th[t].p.tmpOutput]]
        /\ mem' = [mem EXCEPT ![<<"out", t>>] = o.val,
                              ![<<"fresh", t>>] = <<>>]
    /\ UNCHANGED <<net, inputSnap, results, aborted>>
    /\ UNCHANGED <<ctorVars, pfVars, batchVars>>

\* one layer of predict; after the last layer Predict returns output
PredictLayer(t) ==
    /\ ~aborted
    /\ th[t].pc = "run"
    /\ LET input == Slice(InputBuf, Len(mem[InputBuf]))
           st == layerStep(PassState(mem, th[t].prevTmpOutput,
                                     th[t].tmpOutput),
                           input, net.neurons, net.parameters, th[t].output,
                           th[t].layer)
           last == th[t].layer = Len(net.neurons)
           read == LayerRead(st, input, Len(net.neurons), th[t].layer)
           write == LayerWrite(st, th[t].output, Len(net.neurons),
                               th[t].layer)
           \* the scratch of Net.Predict is garbage once it returns
           freed == IF last /\ th[t].kind = "Net"
                    THEN [st.h EXCEPT ![<<"prev", t>>] = <<>>,
                                      ![<<"tmp", t>>] = <<>>]
                    ELSE st.h
       IN  IF st.panic
           THEN /\ aborted' = TRUE
                /\ mem' = st.h
                /\ UNCHANGED <<th, results>>
           ELSE /\ aborted' = FALSE
                /\ mem' = freed
                /\ th' = [th EXCEPT ![t] =
                        [@ EXCEPT !.layer = @ + 1,
                            !.layersRun = @ + 1,
                            !.log = Append(@, [read |-> read, write |-> write,
                                               in |-> Elems(mem, read),
                                               out |-> Elems(st.h, write)]),
                            !.prevTmpOutput = st.prevTmpOutput,
                            !.tmpOutput = st.tmpOutput,
                            !.pc = IF last THEN "ret" ELSE "run",
                            !.ret = IF last THEN th[t].output ELSE NilSlice]]
                /\ results' =
                        IF last
                        THEN results \cup
                                {<<mem[InputBuf], Elems(st.h, th[t].output),
                                   IF th[t].kind = "predictor" THEN "predictor"
                                   ELSE IF th[t].outGiven THEN "given"
                                   ELSE "nil">>}
                        ELSE results
    /\ UNCHANGED <<net, inputSnap>>
    /\ UNCHANGED <<ctorVars, pfVars, batchVars>>

NextPredict ==
    \/ SetInput
    \/ \E t \in Threads : NetPredictCall(t)
    \/ \E t \in Threads : NewPredictor(t)
    \/ \E t \in Threads : PredictorPredictCall(t)
    \/ \E t \in Threads : PredictLayer(t)

SpecPredict == InitPredict /\ [][NextPredict]_vars

(* ------------------------- BatchPredict -------------------------------- *)
\* the buffer of row i of a matrix: rows are numbered from 0 in the program
\* and from 1 in the heap
RowBuf(side, i) == <<side, i + 1>>

\* SosMatrix.Dims reads len(s[0]): it panics on a matrix with no rows
DimsPanics(m) == m.viewer /\ m.nrows = 0

\* x.RowView(i) on the RowViewer got from the type assertion: a nil interface
\* when the matrix is no RowViewer, and s[i] otherwise
RowViewPanics(m, i) == ~m.viewer \/ i < 0 \/ i >= m.nrows
RowView(side, m, i) == Slice(RowBuf(side, i), m.cols)

\* m.Row(d, i): row i copied into d when d is long enough; else into a new
\* slice, which the callers here drop
RowPanics(m, i) == i < 0 \/ i >= m.nrows
Row(h, side, m, d, i) ==
    IF d.len < m.cols THEN h
    ELSE [h EXCEPT ![d.buf] =
            SubSeq(h[RowBuf(side, i)], 1, m.cols)
                \o SubSeq(@, m.cols + 1, Len(@))]

\* m.SetRow(i, d): copy(s[i], d)
SetRow(h, side, m, i, d) ==
    [h EXCEPT ![RowBuf(side, i)] =
        LET k == Min(Len(@), d.len)
        IN  SubSeq(h[d.buf], 1, k) \o SubSeq(@, k + 1, Len(@))]

\* the switch of BatchPredict: the first case whose condition holds, where
\* `case inputIsRowViewer, outputIsRowViewer` holds when either does
Strategy(inputIsRowViewer, outputIsRowViewer) ==
    IF inputIsRowViewer \/ outputIsRowViewer THEN 1
    ELSE IF inputIsRowViewer /\ ~outputIsRowViewer THEN 2
    ELSE IF ~inputIsRowViewer /\ outputIsRowViewer THEN 3
    ELSE IF ~inputIsRowViewer /\ ~outputIsRowViewer THEN 4
    ELSE 0

\* the validation of BatchPredict: the error it returns, or "" for none
BatchError(inputs, outputs, inputDim, outputDim) ==
    IF inputDim # inputs.cols THEN "predict batch: input dimension mismatch"
    ELSE IF outputs.isNil THEN ""
    ELSE IF outputs.cols # outputDim
    THEN "predict batch: output dimension mismatch"
    ELSE IF inputs.nrows # outputs.nrows THEN "predict batch: rows mismatch"
    ELSE ""

\* a panic inside BatchPredict before ParallelFor: a Dims call that panics
BatchCallPanics(inputs, outputs, inputDim) ==
    \/ DimsPanics(inputs)
    \/ inputDim = inputs.cols /\ ~outputs.isNil /\ DimsPanics(outputs)

\* a factory that hands every worker the scratch buffers of worker 1
BatchNewPredictorShared(w) ==
    [prevTmpOutput |-> <<"pprev", 1>>, tmpOutput |-> <<"ptmp", 1>>]

\* batch.NewPredictor() in the f of worker w: the two buffers newPredictMemory
\* makes (new memory; what an earlier f of this worker made is garbage)
BatchNewPredictor(w) ==
    [prevTmpOutput |-> <<"pprev", w>>, tmpOutput |-> <<"ptmp", w>>]

\* an f that makes the input row buffer only
TmpRowBufsInputOnly(strategy) ==
    IF strategy \in {3, 4} THEN {"rowin"} ELSE {}

\* the temporary row buffers f makes: input := make(...), output := make(...)
TmpRowBufs(strategy) ==
    CASE strategy = 2 -> {"rowout"}
      [] strategy = 3 -> {"rowin"}
      [] strategy = 4 -> {"rowin", "rowout"}
      [] OTHER -> {}

\* the body of the loop of f for row i, by strategy: the heap after it and
\* whether it panicked.  p holds the predictor's slices and the row buffers.
RowStep(h, strategy, inputs, outputs, nt, p, i) ==
    LET input == p.input
        output == p.output
        run(h0, in, out) ==
            predict(h0, in, nt.neurons, nt.parameters, p.prevTmpOutput,
                    p.tmpOutput, out)
        failed == [panic |-> TRUE, h |-> h]
        result(st) == [panic |-> st.panic, h |-> st.h]
    IN  CASE strategy = 1 ->
                IF RowViewPanics(inputs, i) \/ RowViewPanics(outputs, i)
                THEN failed
                ELSE result(run(h, RowView("in", inputs, i),
                                RowView("out", outputs, i)))
          [] strategy = 2 ->
                IF RowPanics(outputs, i) \/ RowViewPanics(inputs, i)
                THEN failed
                ELSE LET st == run(Row(h, "out", outputs, output, i),
                                   RowView("in", inputs, i), output)
                     IN  IF st.panic THEN result(st)
                         ELSE [panic |-> FALSE,
                               h |-> SetRow(st.h, "out", outputs, i, output)]
          [] strategy = 3 ->
                IF RowPanics(inputs, i) \/ RowViewPanics(outputs, i)
                THEN failed
                ELSE result(run(Row(h, "in", inputs, input, i), input,
                                RowView("out", outputs, i)))
          [] OTHER ->
                IF RowPanics(inputs, i) \/ RowPanics(outputs, i)
                THEN failed
                ELSE LET st == run(Row(Row(h, "in", inputs, input, i),
                                       "out", outputs, output, i),
                                   input, output)
                     IN  IF st.panic THEN result(st)
                         ELSE [panic |-> FALSE,
                               h |-> SetRow(st.h, "out", outputs, i, output)]

\* BatchPredict up to the spawning of the workers of ParallelFor: Dims and
\* the validation, the allocation of a nil outputs, the choice of f
BatchCall ==
    /\ ~aborted
    /\ batch.pc = "init"
    /\ LET inputs == batch.inputs
           e == BatchError(inputs, batch.outArg, net.inputDim, net.outputDim)
           outputs == IF batch.outArg.isNil
                      THEN Matrix(FALSE, TRUE, inputs.nrows, net.outputDim)
                      ELSE batch.outArg
           strategy == Strategy(inputs.viewer, outputs.viewer)
       IN  IF BatchCallPanics(inputs, batch.outArg, net.inputDim)
           THEN /\ aborted' = TRUE
                /\ UNCHANGED <<batch, mem, n, wg, pc>>
           ELSE IF e # ""
           THEN /\ batch' = [batch EXCEPT !.pc = "ret", !.err = e,
                                !.retOut = IF batch.outArg.isNil THEN "nil"
                                           ELSE "given"]
                /\ UNCHANGED <<aborted, mem, n, wg, pc>>
           ELSE /\ batch' = [batch EXCEPT !.pc = "pf", !.outputs = outputs,
                                          !.strategy = strategy]
                /\ mem' = IF batch.outArg.isNil
                          THEN [b \in DOMAIN mem |->
                                  IF b[1] = "out" /\ b[2] <= inputs.nrows
                                  THEN Zeros(net.outputDim) ELSE mem[b]]
                          ELSE mem
                /\ aborted' = (strategy = 0)
                /\ n' = inputs.nrows
                /\ wg' = WgAdd(nprocs)
                /\ pc' = [w \in Workers |->
                            IF w <= nprocs THEN "claim" ELSE "none"]
    /\ UNCHANGED <<grain, nprocs, idx, start, end, calls, exitClaims, returned>>
    /\ UNCHANGED <<net, th, inputSnap, results, loopi, pred, hist>>
    /\ UNCHANGED ctorVars

\* the entry of f(start, end): p := batch.NewPredictor() and the temporary
\* row buffers of the strategy; then the loop test for i = start
FBegin(w) ==
    /\ ~aborted
    /\ batch.pc = "pf"
    /\ pc[w] = "work"
    /\ LET max == newPredictMemory(net.neurons)
           p == BatchNewPredictor(w)
           rows == TmpRowBufs(batch.strategy)
           made == {p.prevTmpOutput, p.tmpOutput} \cup {<<r, w>> : r \in rows}
           serial == batch.nPredictors + 1
       IN  /\ mem' = [b \in DOMAIN mem |->
                        IF b \in {p.prevTmpOutput, p.tmpOutput} THEN Zeros(max)
                        ELSE IF b = <<"rowin", w>>
                        THEN (IF "rowin" \in rows THEN Zeros(net.inputDim)
                              ELSE <<>>)
                        ELSE IF b = <<"rowout", w>>
                        THEN (IF "rowout" \in rows THEN Zeros(net.outputDim)
                              ELSE <<>>)
                        ELSE mem[b]]
           /\ pred' = [pred EXCEPT ![w] =
                        [prevTmpOutput |-> Slice(p.prevTmpOutput, max),
                         tmpOutput |-> Slice(p.tmpOutput, max),
                         input |-> IF "rowin" \in rows
                                   THEN Slice(<<"rowin", w>>, net.inputDim)
                                   ELSE NilSlice,
                         output |-> IF "rowout" \in rows
                                    THEN Slice(<<"rowout", w>>, net.outputDim)
                                    ELSE NilSlice]]
           /\ batch' = [batch EXCEPT !.nPredictors = serial]
           /\ hist' = [hist EXCEPT
                        !.exec[w] = serial,
                        !.bufOwner = [b \in DOMAIN @ \cup made |->
                                        IF b \in made THEN serial ELSE @[b]],
                        !.nRowBufs = @ + Cardinality(rows),
                        !.touched[w] = {}]
    /\ loopi' = [loopi EXCEPT ![w] = start[w]]
    /\ pc' = [pc EXCEPT ![w] = IF start[w] < end[w] THEN "rows" ELSE "claim"]
    /\ UNCHANGED <<n, grain, nprocs, idx, wg, start, end, calls, exitClaims,
                   returned>>
    /\ UNCHANGED <<net, th, inputSnap, results, aborted>>
    /\ UNCHANGED ctorVars

\* one iteration of the loop of f: row i is predicted; i++ and the loop test
FRow(w) ==
    /\ ~aborted
    /\ batch.pc = "pf"
    /\ pc[w] = "rows"
    /\ LET i == loopi[w]
           r == RowStep(mem, batch.strategy, batch.inputs, batch.outputs, net,
                        pred[w], i)
           touched == {b \in DOMAIN mem : mem'[b] # mem[b]}
       IN  IF r.panic
           THEN /\ aborted' = TRUE
                /\ mem' = r.h
                /\ UNCHANGED <<pc, loopi, hist>>
           ELSE /\ aborted' = FALSE
                /\ mem' = r.h
                /\ loopi' = [loopi EXCEPT ![w] = i + 1]
                /\ pc' = [pc EXCEPT ![w] =
                            IF i + 1 < end[w] THEN "rows" ELSE "claim"]
                /\ hist' = [hist EXCEPT
                            !.rowWriters[i + 1] = @ \cup {hist.exec[w]},
                            !.touched[w] = touched]
    /\ UNCHANGED <<n, grain, nprocs, idx, wg, start, end, calls, exitClaims,
                   returned>>
    /\ UNCHANGED <<net, th, inputSnap, results, batch, pred>>
    /\ UNCHANGED ctorVars

\* after ParallelFor: return outputs, nil
BatchReturn ==
    /\ ~aborted
    /\ batch.pc = "pf"
    /\ returned
    /\ batch' = [batch EXCEPT !.pc = "ret", !.err = "",
                    !.retOut = IF batch.outArg.isNil THEN "alloc" ELSE "given"]
    /\ UNCHANGED <<pfVars, predVars, loopi, pred, hist>>
    /\ UNCHANGED ctorVars

(* -------------------- specification of BatchPredict -------------------- *)
BatchSides == {"in", "out"}
WorkerBufs == {"pprev", "ptmp", "rowin", "rowout"}
BatchBufs == (BatchSides \X (1..MaxRows)) \cup (WorkerBufs \X Workers)

\* the networks batches are predicted with: one layer and three layers
BatchNets ==
    {RandomizeParameters(r.net, 1) :
        r \in {NewTrainer(2, 1, <<Layer("Linear", 1)>>),
               NewTrainer(2, 2, <<Layer("Tanh", 2), Layer("Tanh", 1),
                                  Layer("Linear", 2)>>)}}

\* the grain sizes set with HackGrainSize
BatchGrains == {1, 2, 2 ^ (IntBits - 2), MaxInt}

\* row i of an input matrix with the given number of columns
InputRow(i, cols) == [k \in 1..cols |-> ((i + k) % 3) - 1]

\* input matrices: a SosMatrix or a matrix without RowView, of 0..MaxRows
\* rows, of the network's width or one more
InputMatrices(nt) ==
    {Matrix(FALSE, v, r, c) :
        v \in BOOLEAN, r \in 0..MaxRows, c \in {nt.inputDim, nt.inputDim + 1}}

\* output arguments: nil, or a matrix of either kind filled with prior values
OutputMatrices(nt) ==
    {NilMatrix} \cup
    {Matrix(FALSE, v, r, c) :
        v \in BOOLEAN, r \in 0..MaxRows,
        c \in {nt.outputDim, nt.outputDim + 1}}

PriorRow(cols) == [k \in 1..cols |-> 3]

InitBatch ==
    /\ ctor = NoCall
    /\ net \in BatchNets
    /\ th = [t \in {} |-> 0]
    /\ inputSnap = <<>>
    /\ results = {}
    /\ aborted = FALSE
    /\ n = 0 /\ idx = 0 /\ wg = 0
    /\ grain \in BatchGrains
    /\ nprocs \in 1..MaxProcs
    /\ pc = [w \in Workers |-> "none"]
    /\ start = [w \in Workers |-> 0]
    /\ end = [w \in Workers |-> 0]
    /\ calls = NoCalls
    /\ exitClaims = [w \in Workers |-> 0]
    /\ returned = FALSE
    /\ loopi = [w \in Workers |-> 0]
    /\ pred = [w \in Workers |-> NoPredictor]
    /\ hist = NoHist
    /\ \E inputs \in InputMatrices(net), outArg \in OutputMatrices(net) :
        /\ mem = [b \in BatchBufs |->
                    IF b[1] = "in" /\ b[2] <= inputs.nrows
                    THEN InputRow(b[2], inputs.cols)
                    ELSE IF b[1] = "out" /\ b[2] <= outArg.nrows
                    THEN PriorRow(outArg.cols)
                    ELSE <<>>]
        /\ batch = [NoBatch EXCEPT !.pc = "init", !.inputs = inputs,
                        !.outArg = outArg, !.outputs = outArg,
                        !.outBefore = [i \in 1..outArg.nrows |->
                                        PriorRow(outArg.cols)]]

NextBatch ==
    \/ BatchCall
    \/ \E w \in Workers : Claim(w)
    \/ \E w \in Workers : FBegin(w)
    \/ \E w \in Workers : FRow(w)
    \/ \E w \in Workers : WgDone(w)
    \/ WgWait
    \/ BatchReturn

SpecBatch == InitBatch /\ [][NextBatch]_vars

(* ------------------------------ claims -------------------------------- *)
CeilDiv(a, b) == (a + b - 1) \div b

\* the chunks [k*g, min((k+1)*g, n)) for 0 <= k < ceil(n/g)
Partition(n0, g) ==
    {<<k * g, Min((k + 1) * g, n0)>> : k \in 0..(CeilDiv(n0, g) - 1)}

\* C1: for every n >= 0, grain g >= 1 and P >= 1 and every interleaving, the
\* invocations f(start, end) of one ParallelFor call are exactly the chunks
\* of the partition of [0, n) in steps of g, each invoked exactly once.
C1_ExactPartition ==
    /\ \A c \in DOMAIN calls : c \in Partition(n, grain) /\ calls[c] = 1
    /\ returned => DOMAIN calls = Partition(n, grain)

\* the single-row forward pass: Net.Predict(row, nil) on memory of its own
SingleRow(nt, row) ==
    LET max == newPredictMemory(nt.neurons)
        h == [row |-> row, prev |-> Zeros(max), tmp |-> Zeros(max),
              result |-> Zeros(nt.outputDim)]
        st == predict(h, Slice("row", Len(row)), nt.neurons, nt.parameters,
                      Slice("prev", max), Slice("tmp", max),
                      Slice("result", nt.outputDim))
    IN  Elems(st.h, Slice("result", nt.outputDim))

\* C2: when PredictBatch over a source and a sink that both expose row views
\* returns without error, every output row i is the single-row forward pass
\* of input row i, for every grain size, worker count and interleaving (so
\* the result depends on none of them).
C2_BatchEqualsSingleRow ==
    ( /\ batch.pc = "ret" /\ batch.err = ""
      /\ batch.inputs.viewer /\ batch.outputs.viewer )
    => \A i \in 0..(batch.inputs.nrows - 1) :
            mem[RowBuf("out", i)] = SingleRow(net, mem[RowBuf("in", i)])

\* a three-layer network has predicted a full batch in chunks of one row with
\* two workers, into a sink the caller supplied
C2_Witness ==
    /\ batch.pc = "ret" /\ batch.err = "" /\ batch.retOut = "given"
    /\ batch.inputs.viewer /\ batch.outputs.viewer
    /\ batch.inputs.nrows = MaxRows
    /\ Len(net.neurons) = 3
    /\ grain = 1 /\ nprocs = 2
    /\ batch.nPredictors = MaxRows
    /\ \E i, j \in 0..(MaxRows - 1) :
            /\ mem[RowBuf("out", i)] # mem[RowBuf("out", j)]
            /\ mem[RowBuf("out", i)] # batch.outBefore[i + 1]

\* C3: when ParallelFor has returned every worker has finished: no
\* invocation of f is running and no worker can start one.
C3_ReturnAfterAllWorkers ==
    returned => \A w \in 1..nprocs : pc[w] = "done"

C3_Witness ==
    /\ returned /\ nprocs = 2 /\ Cardinality(DOMAIN calls) >= 2

\* C4: with terminating work and fair scheduling every ParallelFor call
\* returns, each worker having made exactly one claim with start >= n.
C4_Terminates ==
    <>(returned /\ \A w \in 1..nprocs : exitClaims[w] = 1)

\* the width of a matrix is defined unless it is a SosMatrix without rows
HasWidth(m) == ~m.viewer \/ m.nrows > 0

\* the call's dimensions do not fit the network or each other
BatchMismatch ==
    LET inputs == batch.inputs
        outArg == batch.outArg
    IN  \/ HasWidth(inputs) /\ inputs.cols # net.inputDim
        \/ /\ ~outArg.isNil
           /\ \/ HasWidth(outArg) /\ outArg.cols # net.outputDim
              \/ outArg.nrows # inputs.nrows

\* C5: BatchPredict answers every dimension mismatch (input width, sink width,
\* sink row count) with an error and never aborts; no Predictor is created,
\* no chunk runs, no row of the sink is written and the outputs returned is
\* the one passed in.
C5_MismatchIsError ==
    (batch.pc # "none" /\ BatchMismatch) =>
        /\ ~aborted
        /\ batch.pc \in {"init", "ret"}
        /\ batch.nPredictors = 0
        /\ DOMAIN calls = {}
        /\ \A i \in 1..batch.outArg.nrows :
                mem[<<"out", i>>] = batch.outBefore[i]
        /\ batch.pc = "ret" =>
                /\ batch.err # ""
                /\ batch.retOut = IF batch.outArg.isNil THEN "nil" ELSE "given"

\* C6: Net.Predict returns an error exactly when len(input) # inputDim or a
\* non-nil output has len(output) # outputDim; on error no layer is computed,
\* nothing is returned and the caller's buffer is unchanged; on success the
\* returned buffer has length outputDim and is the caller's buffer when one
\* was given and a newly allocated one when output was nil.
C6_PredictValidates ==
    \A t \in DOMAIN th :
        LET c == th[t]
            bad == \/ c.inLen # net.inputDim
                   \/ c.outGiven /\ Len(c.outBefore) # net.outputDim
        IN  c.kind = "Net" =>
            /\ c.pc = "run" => ~bad
            /\ c.pc = "ret" => (c.err # "" <=> bad)
            /\ (c.pc = "ret" /\ c.err # "") =>
                    /\ c.layersRun = 0
                    /\ c.ret = NilSlice
                    /\ c.outGiven => mem[<<"out", t>>] = c.outBefore
            /\ (c.pc = "ret" /\ c.err = "") =>
                    /\ c.layersRun = Len(net.neurons)
                    /\ c.ret.len = net.outputDim
                    /\ Len(mem[c.ret.buf]) = net.outputDim
                    /\ c.ret.buf = IF c.outGiven THEN <<"out", t>>
                                   ELSE <<"fresh", t>>

\* an output buffer of the wrong length is refused and left as it was
C6_Witness ==
    \E t \in DOMAIN th :
        /\ th[t].pc = "ret" /\ th[t].kind = "Net"
        /\ th[t].err = "output dimension mismatch"
        /\ th[t].ncalls = 2
        /\ mem[<<"out", t>>] = th[t].outBefore

\* C7: when exactly one of the input source and the output sink exposes a row
\* view, BatchPredict takes the path that uses RowView on that side only and
\* Row / SetRow with a private row buffer on the other, and does not abort.
C7_MixedCapabilityFallback ==
    ( /\ batch.pc # "none" /\ ~BatchMismatch
      /\ batch.inputs.nrows >= 1
      /\ grain <= 2
      /\ batch.pc # "init"
      /\ batch.inputs.viewer # batch.outputs.viewer )
    => /\ ~aborted
       /\ batch.strategy = IF batch.inputs.viewer THEN 2 ELSE 3

\* C8: a prediction never writes its input: the input buffer always holds
\* what the caller stored in it, for every network shape, with a nil and with
\* a given output, and while two callers predict the same input concurrently.
C8_InputNeverMutated ==
    InputBuf \in DOMAIN mem => mem[InputBuf] = inputSnap

\* one caller has returned and the other is past its first layer, on a
\* network of several layers
C8_Witness ==
    /\ DOMAIN th = Threads
    /\ Len(net.neurons) >= 3
    /\ th[1].pc = "run" /\ th[1].layer >= 2 /\ th[1].outGiven
    /\ th[2].pc = "run" /\ th[2].layer >= 2
    /\ \E r \in results : r[1] = mem[InputBuf] /\ r[3] = "nil"

\* C9: for a fixed network the output is a function of the input alone:
\* Predict(input, nil), Predict(input, out) with prior values in out, and
\* repeated predictions with a predictor's used scratch buffers all agree.
C9_SameOutput ==
    \A r1, r2 \in results : r1[1] = r2[1] => r1[2] = r2[2]

\* one input was predicted with nil, with a given buffer and by a predictor
\* whose scratch buffers held the values of another input
C9_Witness ==
    /\ DOMAIN th = Threads
    /\ \E r1, r2, r3, r4 \in results :
            /\ r1[1] = r2[1] /\ r2[1] = r3[1] /\ r4[1] # r1[1]
            /\ r1[3] = "nil" /\ r2[3] = "given"
            /\ r3[3] = "predictor" /\ r4[3] = "predictor"
            /\ th[2].pc = "ret" /\ r3[1] = mem[InputBuf]
            /\ \E i \in 1..Len(r1[2]) : r1[2][i] # 0

\* C10: construction rejects every invalid topology with an error value:
\* NewTrainer returns an error for zero layers or a layer with zero units, and
\* NewSimpleTrainer returns an error whenever inputDim <= 0, outputDim <= 0 or
\* nNeuronsPerLayer <= 0; neither aborts nor returns a network in these cases.
C10_RejectsInvalidTopology ==
    /\ ( /\ ctor.op = "NewTrainer"
         /\ \/ Len(ctor.neurons) = 0
            \/ \E i \in 1..Len(ctor.neurons) : Len(ctor.neurons[i]) = 0 )
       => ctor.out.res = "error"
    /\ ( /\ ctor.op = "NewSimpleTrainer"
         /\ \/ ctor.inputDim <= 0
            \/ ctor.outputDim <= 0
            \/ ctor.nNeuronsPerLayer <= 0 )
       => ctor.out.res = "error"

\* the number of invocations of f made so far
RECURSIVE SumCalls(_, _)
SumCalls(cs, S) ==
    IF S = {} THEN 0
    ELSE LET c == CHOOSE x \in S : TRUE
         IN  cs[c] + SumCalls(cs, S \ {c})
Invocations == SumCalls(calls, DOMAIN calls)

ActiveRows(w) ==
    IF pc[w] \in {"work", "rows"}
    THEN LET next == IF pc[w] = "rows" THEN loopi[w] ELSE start[w]
         IN  {r \in next..(end[w] - 1) :
                \A j \in next..r : 0 <= j /\ j < batch.inputs.nrows}
    ELSE {}

\* C12: every row of the sink is written by one invocation of f only, and by
\* exactly one once BatchPredict has returned; the rows two workers have yet
\* to reach in the chunks they are running have no row in common, so no row
\* is written by one worker while another reads or writes it.
C12_RowsWrittenOnce ==
    batch.pc # "none" =>
        /\ \A r \in 1..MaxRows :
                /\ Cardinality(hist.rowWriters[r]) <= 1
                /\ r > batch.inputs.nrows => hist.rowWriters[r] = {}
                /\ (batch.pc = "ret" /\ batch.err = ""
                        /\ r <= batch.inputs.nrows)
                    => Cardinality(hist.rowWriters[r]) = 1
        /\ \A w1, w2 \in Workers :
                w1 # w2 => ActiveRows(w1) \cap ActiveRows(w2) = {}

\* two workers have shared a batch of three rows in chunks of two rows
C12_Witness ==
    /\ batch.pc = "ret" /\ batch.err = ""
    /\ nprocs = 2 /\ grain = 2 /\ batch.inputs.nrows = MaxRows
    /\ hist.rowWriters[1] = hist.rowWriters[2]
    /\ hist.rowWriters[3] # hist.rowWriters[1]
    /\ hist.exec[1] # 0 /\ hist.exec[2] # 0

\* the buffers the running f of worker w works with, the sink's and the
\* source's rows aside
OwnBufs(w) ==
    {sl.buf : sl \in {pred[w].prevTmpOutput, pred[w].tmpOutput, pred[w].input,
                      pred[w].output}} \ {NilSlice.buf}

\* C13: no scratch buffer of a Predictor and no temporary row buffer is used
\* by two workers: the buffers of two running invocations of f are disjoint,
\* each was made by the invocation that uses it, and whatever an invocation
\* writes besides rows of the sink is a buffer it made itself.
C13_BuffersPrivate ==
    /\ \A w1, w2 \in Workers :
            (w1 # w2 /\ pc[w1] = "rows" /\ pc[w2] = "rows")
                => OwnBufs(w1) \cap OwnBufs(w2) = {}
    /\ \A w \in Workers :
            pc[w] = "rows" =>
                /\ \A b \in OwnBufs(w) : hist.bufOwner[b] = hist.exec[w]
                /\ \A b \in hist.touched[w] :
                        \/ b[1] = "out" /\ (b[2] - 1) \in start[w]..(end[w] - 1)
                        \/ b \in OwnBufs(w)

\* two workers are inside f at once with matrices that expose no row view,
\* each with four buffers of its own, one having predicted a row with its
\* buffers
C13_Witness ==
    /\ pc[1] = "rows" /\ pc[2] = "rows"
    /\ batch.strategy = 4
    /\ Len(net.neurons) = 3
    /\ \A w \in {1, 2} : Cardinality(OwnBufs(w)) = 4
    /\ \E w \in {1, 2} :
            /\ \E b \in hist.touched[w] : b \in OwnBufs(w)
            /\ \E b \in hist.touched[w] : b[1] = "out"

\* the scratch buffers a caller's predictions may use
ScratchBufs(t) == {<<"prev", t>>, <<"tmp", t>>, <<"pprev", t>>, <<"ptmp", t>>}

\* layer k applied to the vector v: element j is
\* activate(combine(parameters[j], v))
LayerOf(nt, k, v) ==
    [j \in 1..Len(nt.neurons[k]) |->
        Activate(nt.neurons[k][j], Combine(nt.parameters[k][j], v))]

\* layer[L-1](...layer[k](v))
RECURSIVE Composition(_, _, _)
Composition(nt, k, v) ==
    IF k > Len(nt.neurons) THEN v
    ELSE Composition(nt, k + 1, LayerOf(nt, k, v))

\* C14: in a forward pass layer 0 reads the caller's input, every later layer
\* reads exactly what the layer before wrote, no layer reads the buffer it
\* writes, all layers but the last write scratch buffers only and the last
\* writes the caller's output only (a single layer goes from input to output
\* and leaves the scratch untouched); each layer's values are
\* activate(combine(parameters[j], layer input)) and the output is the
\* composition of the layers applied to the input.
C14_LayerChain ==
    \A t \in DOMAIN th :
        LET c == th[t]
            L == Len(net.neurons)
        IN  /\ \A k \in 1..Len(c.log) :
                LET e == c.log[k]
                IN  /\ e.read.buf # e.write.buf
                    /\ k = 1 => /\ e.read = Slice(InputBuf, c.inLen)
                                /\ c.pc = "run" => e.in = mem[InputBuf]
                    /\ k > 1 => /\ e.read = c.log[k - 1].write
                                /\ e.in = c.log[k - 1].out
                    /\ k < L => e.write.buf \in ScratchBufs(t)
                    /\ k = L => e.write = c.output
                    /\ e.out = LayerOf(net, k, e.in)
            /\ Len(c.log) = c.layersRun
            /\ (c.pc = "ret" /\ c.err = "") =>
                    /\ Len(c.log) = L
                    /\ Elems(mem, c.ret) = Composition(net, 1, c.log[1].in)
            /\ (L = 1 /\ c.hasP) =>
                    \A b \in {c.p.prevTmpOutput.buf, c.p.tmpOutput.buf} :
                        \A j \in 1..Len(mem[b]) : mem[b][j] = 0

\* a predictor has run its second prediction through a three-layer network,
\* on scratch buffers that held the values of the first
C14_Witness ==
    \E t \in DOMAIN th :
        /\ th[t].pc = "ret" /\ th[t].kind = "predictor" /\ th[t].ncalls = 2
        /\ Len(net.neurons) = 3 /\ Len(th[t].log) = 3
        /\ th[t].log[1].write.buf # th[t].log[2].write.buf
        /\ \E j \in 1..Len(mem[th[t].ret.buf]) :
                mem[th[t].ret.buf][j] \notin {0, th[t].outBefore[j]}

\* m is the width of the widest layer
IsMaxWidth(nt, m) ==
    /\ \A i \in 1..Len(nt.neurons) : Len(nt.neurons[i]) <= m
    /\ \E i \in 1..Len(nt.neurons) : Len(nt.neurons[i]) = m

\* C15: the two scratch buffers have the length of the widest layer, every
\* reslice of the forward pass asks for no more than that, so no forward
\* pass aborts or leaves its two buffers, and the slices a predictor stores
\* keep their full length over its predictions.
C15_ScratchFits ==
    /\ ~aborted
    /\ \A t \in DOMAIN th :
        LET c == th[t]
        IN  /\ c.hasP =>
                \A sl \in {c.p.prevTmpOutput, c.p.tmpOutput} :
                    /\ sl.buf \in {<<"pprev", t>>, <<"ptmp", t>>}
                    /\ sl.len = Len(mem[sl.buf])
                    /\ IsMaxWidth(net, sl.len)
            /\ c.p.prevTmpOutput.buf # c.p.tmpOutput.buf \/ ~c.hasP
            /\ c.pc = "run" =>
                \A sl \in {c.prevTmpOutput, c.tmpOutput} :
                    /\ sl.buf \in (IF c.kind = "Net"
                                   THEN {<<"prev", t>>, <<"tmp", t>>}
                                   ELSE {<<"pprev", t>>, <<"ptmp", t>>})
                    /\ sl.len <= Len(mem[sl.buf])
                    /\ IsMaxWidth(net, Len(mem[sl.buf]))
            /\ \A k \in 1..Len(c.log) :
                    /\ c.log[k].write.len = Len(net.neurons[k])
                    /\ c.log[k].write.len <= Len(mem[c.log[k].write.buf])
                       \/ c.pc # "run"

\* a predictor is in its second prediction with a scratch slice cut shorter
\* than the buffer, while the slices it stores are as long as ever
C15_Witness ==
    \E t \in DOMAIN th :
        /\ th[t].pc = "run" /\ th[t].kind = "predictor" /\ th[t].ncalls = 2
        /\ th[t].tmpOutput.len < Len(mem[th[t].tmpOutput.buf])
        /\ th[t].p.tmpOutput.len = Len(mem[th[t].p.tmpOutput.buf])
        /\ th[t].layersRun >= 2

\* C16: every network a constructor returns satisfies the data-model
\* invariant: at least one layer, every layer at least one unit and one
\* parameter vector per unit, each of length NumParameters(number of inputs of
\* the layer), the recorded dimensions are the ones given, and the recorded
\* output dimension is the width of the final layer.
C16_DataModelInvariant ==
    ctor.out.res = "ok" =>
        LET nt == ctor.out.net
            L == Len(nt.neurons)
        IN  /\ L >= 1
            /\ Len(nt.parameters) = L
            /\ \A i \in 1..L :
                    /\ Len(nt.neurons[i]) >= 1
                    /\ Len(nt.parameters[i]) = Len(nt.neurons[i])
                    /\ \A j \in 1..Len(nt.parameters[i]) :
                            Len(nt.parameters[i][j]) =
                                (IF i = 1 THEN nt.inputDim
                                 ELSE Len(nt.neurons[i - 1])) + 1
            /\ nt.inputDim = ctor.inputDim
            /\ nt.outputDim = ctor.outputDim
            /\ nt.outputDim = Len(nt.neurons[L])

\* C17: the grain size of a network is at least 1 in every state, after
\* construction and after any sequence of HackGrainSize calls.
C17_GrainSizeAtLeastOne ==
    ctor.out.res = "ok" => ctor.out.net.grainSize >= 1

====
